---- MODULE Spec2Model ----
(***************************************************************************)
(* Cart-to-order transition of the food ordering backend (src/server.js,   *)
(* second server definition, lines 578-1356).                              *)
(*                                                                         *)
(* Every request handler is an async function: it runs from one `await`    *)
(* to the next without interruption, and other requests may run while it   *)
(* waits.  Each action below is one such segment: the storage operation    *)
(* being awaited together with the synchronous code that follows it.       *)
(* Money is in integer cents.                                              *)
(***************************************************************************)
EXTENDS Integers, Sequences, FiniteSets, TLC

VARIABLES
    now,        \* Date.now(), in milliseconds
    food,       \* the Food collection: id -> document
    cartData,   \* User.cartData of every user: sequence of [id, q] in key order
    orders,     \* the Order collection, in insertion order
    req,        \* the requests in flight, one per connection slot
    nReq,       \* requests accepted so far
    nEdit       \* catalog edits so far

vars == <<now, food, cartData, orders, req, nReq, nEdit>>

---------------------------------------------------------------------------
(* Bounds *)

MaxTime == 1
MaxRequests == 3
MaxEdits == 1
MaxQty == 2
MaxNeg == 1
MaxOrders == 2
ListRequests == 5

---------------------------------------------------------------------------
(* Universe *)

Users == {"u1", "u2"}
FoodIds == {"f1", "f2"}
Prices == {0, 850, 1099}
Names == {"n1", "n2"}
Images == {"i1", "i2"}
\* the quantity a request body may carry: nothing in the handlers checks it
Quantities == {-1, 1, 2}
Pages == {1, 2}
Limits == {1, 2}
\* a token that fails jwt.verify, one that names no user, and no token at all
BadTokens == {"invalid", "unknown_user", "missing"}
SeqSlots == {1}
ConcSlots == {1, 2}

\* the delivery fee of an order, in cents
deliveryFee == 200

\* the fields the place-order handler tests
handlerFields ==
    {"firstName", "lastName", "email", "street", "city", "state", "zipcode",
     "country", "phone"}

\* the fields the order test lists as required
requiredFields ==
    {"firstName", "lastName", "email", "street", "city", "state", "zipCode",
     "country", "phone"}

\* the address sub-document of the order schema
addressSchema ==
    {"firstName", "lastName", "email", "street", "city", "state", "zipcode",
     "country", "phone"}

\* addresses a request may carry, as the set of fields with a truthy value;
\* the empty set also stands for a request without an address
Addresses ==
    {requiredFields, handlerFields, handlerFields \ {"phone"},
     requiredFields \ {"email", "city"}}

---------------------------------------------------------------------------
(* Cart objects: a JavaScript object keeps its keys in insertion order *)

Has(cart, i) == \E k \in 1..Len(cart) : cart[k].id = i

Pos(cart, i) == CHOOSE k \in 1..Len(cart) : cart[k].id = i

\* cartData[itemId], with 0 standing for undefined where only truthiness counts
Get(cart, i) == IF Has(cart, i) THEN cart[Pos(cart, i)].q ELSE 0

\* cartData[itemId] = v
Put(cart, i, v) ==
    IF Has(cart, i)
    THEN [cart EXCEPT ![Pos(cart, i)].q = v]
    ELSE Append(cart, [id |-> i, q |-> v])

\* delete cartData[itemId]
Del(cart, i) == SelectSeq(cart, LAMBDA e : e.id # i)

---------------------------------------------------------------------------
(* The cart handlers' updates of the cart object *)

\* POST /api/cart/add: if (cartData[itemId]) += quantity, else = quantity
addUpdate(cart, i, quantity) ==
    IF Get(cart, i) # 0
    THEN Put(cart, i, Get(cart, i) + quantity)
    ELSE Put(cart, i, quantity)

\* removeUpdate without its delete: the entry stays at what is left
removeUpdateKeepsEntry(cart, i, quantity) ==
    IF Get(cart, i) # 0
    THEN Put(cart, i, Get(cart, i) - quantity)
    ELSE cart

\* POST /api/cart/remove: if (cartData[itemId]) -= quantity, delete when <= 0
removeUpdate(cart, i, quantity) ==
    IF Get(cart, i) # 0
    THEN IF Get(cart, i) - quantity <= 0
         THEN Del(cart, i)
         ELSE Put(cart, i, Get(cart, i) - quantity)
    ELSE cart

\* the quantities the model lets a cart entry take
InRange(cart) ==
    \A k \in 1..Len(cart) : -MaxNeg <= cart[k].q /\ cart[k].q <= MaxQty

---------------------------------------------------------------------------
(* Order numbers: `ORD-${Date.now()}-${(count + 1).toString().padStart(4, '0')}` *)

DigitChar(d) == <<"0", "1", "2", "3", "4", "5", "6", "7", "8", "9">>[d + 1]

RECURSIVE toString(_)
toString(n) ==
    IF n < 10
    THEN <<DigitChar(n)>>
    ELSE toString(n \div 10) \o <<DigitChar(n % 10)>>

RECURSIVE padStart(_, _, _)
padStart(str, len, ch) ==
    IF Len(str) >= len THEN str ELSE padStart(<<ch>> \o str, len, ch)

\* orderNumberOf with the count of the stored orders as the sequence segment
orderNumberOfCount(ts, count) ==
    <<"O", "R", "D", "-">> \o toString(ts) \o <<"-">>
        \o padStart(toString(count), 4, "0")

orderNumberOf(ts, count) ==
    <<"O", "R", "D", "-">> \o toString(ts) \o <<"-">>
        \o padStart(toString(count + 1), 4, "0")

---------------------------------------------------------------------------
(* Order placement: validation, line items, totals *)

\* the address test of the place-order handler
addressComplete(address) == handlerFields \subseteq address

\* the keys of missingFields that are true
missingFields(address) == handlerFields \ address

\* cartItemsOf without its filter
cartItemsUnfiltered(cart) == cart

\* Object.entries(cartData).filter(([_, quantity]) => quantity > 0)
cartItemsOf(cart) == SelectSeq(cart, LAMBDA e : e.q > 0)

\* the line item pushed for a resolved food document
lineItem(id, doc, quantity) ==
    [foodId |-> id, name |-> doc.name, price |-> doc.price,
     quantity |-> quantity, image |-> doc.image]

\* itemTotal that forgets the quantity
itemTotalUnit(doc, quantity) == doc.price

\* foodItem.price * quantity
itemTotal(doc, quantity) == doc.price * quantity

\* subtotal + deliveryFee
totalAmountOf(subtotal) == subtotal + deliveryFee

\* new Order({...}) as the schema stores it
newOrder(r) ==
    [userId |-> r.user,
     orderNumber |-> r.orderNumber,
     items |-> r.items,
     amount |-> r.subtotal,
     deliveryFee |-> deliveryFee,
     totalAmount |-> totalAmountOf(r.subtotal),
     address |-> r.address \cap addressSchema,
     status |-> "Food Processing",
     paymentStatus |-> "Pending",
     createdAt |-> r.createdAt]

\* the unique index on orderNumber rejects the insert
duplicateKey(coll, doc) ==
    \E k \in 1..Len(coll) : coll[k].orderNumber = doc.orderNumber

---------------------------------------------------------------------------
(* Order listing *)

\* Order.find({ userId })
ordersOf(coll, u) == SelectSeq(coll, LAMBDA o : o.userId = u)

\* the results of .sort({ createdAt: -1 }): orders of one createdAt come in
\* any order
sortedByCreatedAtDesc(list) ==
    LET n == Len(list)
        perms == {p \in [1..n -> 1..n] :
                     /\ \A a, b \in 1..n : a # b => p[a] # p[b]
                     /\ \A a, b \in 1..n :
                          a < b => list[p[a]].createdAt >= list[p[b]].createdAt}
    IN {[k \in 1..n |-> list[p[k]]] : p \in perms}

\* .skip(skip).limit(limit)
skipLimit(list, skip, limit) ==
    SubSeq(list, skip + 1, IF skip + limit < Len(list) THEN skip + limit ELSE Len(list))

\* formatOrder that reports the populated document's price instead of the
\* line item's
formatOrderCurrentPrice(o, catalog) ==
    [orderNumber |-> o.orderNumber,
     items |-> [k \in 1..Len(o.items) |->
                  [_id |-> IF catalog[o.items[k].foodId].exists
                           THEN o.items[k].foodId
                           ELSE "null",
                   name |-> o.items[k].name,
                   price |-> catalog[o.items[k].foodId].price,
                   quantity |-> o.items[k].quantity,
                   image |-> o.items[k].image,
                   total |-> catalog[o.items[k].foodId].price * o.items[k].quantity,
                   isAvailable |-> catalog[o.items[k].foodId].exists
                                   /\ catalog[o.items[k].foodId].isAvailable]],
     amount |-> o.amount,
     deliveryFee |-> o.deliveryFee,
     totalAmount |-> o.totalAmount,
     address |-> o.address,
     status |-> o.status,
     paymentStatus |-> o.paymentStatus,
     createdAt |-> o.createdAt]

\* one entry of formattedOrders; populate() puts the current food document,
\* or null when there is none, in item.foodId
formatOrder(o, catalog) ==
    [orderNumber |-> o.orderNumber,
     items |-> [k \in 1..Len(o.items) |->
                  [_id |-> IF catalog[o.items[k].foodId].exists
                           THEN o.items[k].foodId
                           ELSE "null",
                   name |-> o.items[k].name,
                   price |-> o.items[k].price,
                   quantity |-> o.items[k].quantity,
                   image |-> o.items[k].image,
                   total |-> o.items[k].price * o.items[k].quantity,
                   isAvailable |-> catalog[o.items[k].foodId].exists
                                   /\ catalog[o.items[k].foodId].isAvailable]],
     amount |-> o.amount,
     deliveryFee |-> o.deliveryFee,
     totalAmount |-> o.totalAmount,
     address |-> o.address,
     status |-> o.status,
     paymentStatus |-> o.paymentStatus,
     createdAt |-> o.createdAt]

\* totalPagesOf that rounds down
totalPagesFloor(totalOrders, limit) == totalOrders \div limit

\* Math.ceil(totalOrders / limit)
totalPagesOf(totalOrders, limit) == (totalOrders + limit - 1) \div limit

paginationOf(page, limit, totalOrders) ==
    [currentPage |-> page,
     totalPages |-> totalPagesOf(totalOrders, limit),
     totalOrders |-> totalOrders,
     hasNextPage |-> page < totalPagesOf(totalOrders, limit),
     hasPrevPage |-> page > 1]

---------------------------------------------------------------------------
(* Requests *)

NoResp == [code |-> 0, message |-> "", data |-> <<>>]

Idle ==
    [pc |-> "idle", route |-> "", op |-> "", user |-> "", itemId |-> "",
     quantity |-> 0, address |-> {}, page |-> 0, limit |-> 0,
     cart |-> <<>>, idx |-> 0, items |-> <<>>, subtotal |-> 0, count |-> 0,
     totalItems |-> 0, createdAt |-> 0, orderNumber |-> <<>>, found |-> <<>>,
     log |-> <<>>, resp |-> NoResp, cart0 |-> <<>>, orders0 |-> <<>>]

\* a request that passed authMiddleware; cart0 and orders0 record the user's
\* cart and the Order collection as the request found them
accepted(op, u) ==
    [Idle EXCEPT !.route = op, !.op = op, !.user = u, !.cart0 = cartData[u],
                 !.orders0 = orders]

\* res.json(...): the handler is over
respond(r, code, message, data) ==
    [r EXCEPT !.pc = "done",
              !.resp = [code |-> code, message |-> message, data |-> data],
              !.cart = <<>>, !.idx = 0, !.items = <<>>, !.subtotal = 0,
              !.count = 0, !.totalItems = 0, !.createdAt = 0,
              !.orderNumber = <<>>, !.found = <<>>]

\* a new request takes the first slot that serves no request
Free(s) ==
    /\ req[s].pc \in {"idle", "done"}
    /\ \A t \in ConcSlots : t < s => req[t].pc \notin {"idle", "done"}
    /\ nReq < MaxRequests

Init ==
    /\ now = 0
    /\ food = [f \in FoodIds |->
                 [exists |-> TRUE,
                  name |-> "n1",
                  price |-> IF f = "f1" THEN 1099 ELSE 850,
                  image |-> "i1",
                  isAvailable |-> TRUE]]
    /\ cartData = [u \in Users |-> <<>>]
    /\ orders = <<>>
    /\ req = [s \in ConcSlots |-> Idle]
    /\ nReq = 0
    /\ nEdit = 0

---------------------------------------------------------------------------
(* The world around the server: the clock and the catalog's administrators *)

Tick ==
    /\ now < MaxTime
    /\ now' = now + 1
    /\ UNCHANGED <<food, cartData, orders, req, nReq, nEdit>>

Edit(f, doc) ==
    /\ nEdit < MaxEdits
    /\ food[f].exists
    /\ doc # food[f]
    /\ food' = [food EXCEPT ![f] = doc]
    /\ nEdit' = nEdit + 1
    /\ UNCHANGED <<now, cartData, orders, req, nReq>>

SetPrice(f, p) == Edit(f, [food[f] EXCEPT !.price = p])

SetAvailable(f, b) == Edit(f, [food[f] EXCEPT !.isAvailable = b])

Rename(f, n) == Edit(f, [food[f] EXCEPT !.name = n])

SetImage(f, i) == Edit(f, [food[f] EXCEPT !.image = i])

DeleteFood(f) == Edit(f, [food[f] EXCEPT !.exists = FALSE])

---------------------------------------------------------------------------
(* The first action of every request covers its arrival, authMiddleware and  *)
(* the handler up to and including its first awaited storage operation: the *)
(* code before that operation reads nothing another request can change.     *)

authMessage(token) ==
    CASE token = "missing" -> "Access token is required"
      [] token = "unknown_user" -> "User not found"
      [] OTHER -> "Authentication failed"

\* AuthReject that goes on to next() after its answer: the handler of
\* DELETE /api/cart/clear then runs with the userId of the request's body
AuthRejectCallsNext(s, route, token) ==
    /\ Free(s)
    /\ req' = [req EXCEPT ![s] =
                 respond([Idle EXCEPT !.route = route, !.op = "auth"],
                         401, authMessage(token), <<>>)]
    /\ nReq' = nReq + 1
    /\ IF route = "clear"
       THEN \E u \in Users : cartData' = [cartData EXCEPT ![u] = <<>>]
       ELSE UNCHANGED cartData
    /\ UNCHANGED <<now, food, orders, nEdit>>

\* authMiddleware answers 401 to a request for one of the routes behind it,
\* and next() is never called
AuthReject(s, route, token) ==
    /\ Free(s)
    /\ req' = [req EXCEPT ![s] =
                 respond([Idle EXCEPT !.route = route, !.op = "auth"],
                         401, authMessage(token), <<>>)]
    /\ nReq' = nReq + 1
    /\ UNCHANGED <<now, food, cartData, orders, nEdit>>

failMessage(op) ==
    CASE op = "add" -> "Failed to add item to cart"
      [] op = "remove" -> "Failed to remove item from cart"
      [] op = "get" -> "Failed to get cart data"
      [] op = "clear" -> "Failed to clear cart"
      [] op = "place" -> "Failed to place order: storage error"
      [] OTHER -> "Failed to get orders: storage error"

---------------------------------------------------------------------------
(* POST /api/cart/add *)

\* await User.findById(userId), then the update of the object read
AddRead(s, u, i, quantity) ==
    /\ Free(s)
    /\ InRange(addUpdate(cartData[u], i, quantity))
    /\ req' = [req EXCEPT ![s] =
                 [accepted("add", u) EXCEPT
                    !.pc = "a_write", !.itemId = i, !.quantity = quantity,
                    !.cart = addUpdate(cartData[u], i, quantity)]]
    /\ nReq' = nReq + 1
    /\ UNCHANGED <<now, food, cartData, orders, nEdit>>

\* AddWrite as an increment applied to the cart as it is stored now
AddWriteMerges(s) ==
    /\ req[s].pc = "a_write"
    /\ LET merged == addUpdate(cartData[req[s].user], req[s].itemId, req[s].quantity)
       IN /\ cartData' = [cartData EXCEPT ![req[s].user] = merged]
          /\ req' = [req EXCEPT ![s] =
                       respond(req[s], 200, "Item added to cart",
                               <<req[s].itemId, Get(merged, req[s].itemId)>>)]
    /\ UNCHANGED <<now, food, orders, nReq, nEdit>>

\* await User.findByIdAndUpdate(userId, { cartData }), then the response
AddWrite(s) ==
    /\ req[s].pc = "a_write"
    /\ cartData' = [cartData EXCEPT ![req[s].user] = req[s].cart]
    /\ req' = [req EXCEPT ![s] =
                 respond(req[s], 200, "Item added to cart",
                         <<req[s].itemId, Get(req[s].cart, req[s].itemId)>>)]
    /\ UNCHANGED <<now, food, orders, nReq, nEdit>>

---------------------------------------------------------------------------
(* POST /api/cart/remove *)

RemoveRead(s, u, i, quantity) ==
    /\ Free(s)
    /\ InRange(removeUpdate(cartData[u], i, quantity))
    /\ req' = [req EXCEPT ![s] =
                 [accepted("remove", u) EXCEPT
                    !.pc = "r_write", !.itemId = i, !.quantity = quantity,
                    !.cart = removeUpdate(cartData[u], i, quantity)]]
    /\ nReq' = nReq + 1
    /\ UNCHANGED <<now, food, cartData, orders, nEdit>>

RemoveWrite(s) ==
    /\ req[s].pc = "r_write"
    /\ cartData' = [cartData EXCEPT ![req[s].user] = req[s].cart]
    /\ req' = [req EXCEPT ![s] =
                 respond(req[s], 200, "Item removed from cart",
                         <<req[s].itemId, Get(req[s].cart, req[s].itemId)>>)]
    /\ UNCHANGED <<now, food, orders, nReq, nEdit>>

---------------------------------------------------------------------------
(* POST /api/cart/get *)

\* the entries of Object.entries(cartData) that pass `if (quantity > 0)`:
\* the loop awaits nothing for the others
cartViewEntries(cart) == SelectSeq(cart, LAMBDA e : e.q > 0)

\* the element pushed to cartItems for a resolved food document
cartViewItem(id, doc, quantity) ==
    [_id |-> id, name |-> doc.name, price |-> doc.price, image |-> doc.image,
     quantity |-> quantity, total |-> doc.price * quantity,
     isAvailable |-> doc.isAvailable]

\* summaryOf that leaves the delivery fee out of finalAmount
summaryOfNoFee(items, totalItems, totalAmount) ==
    [itemCount |-> Len(items),
     totalItems |-> totalItems,
     totalAmount |-> totalAmount,
     deliveryFee |-> IF totalAmount > 0 THEN deliveryFee ELSE 0,
     finalAmount |-> totalAmount]

\* the summary of the response
summaryOf(items, totalItems, totalAmount) ==
    [itemCount |-> Len(items),
     totalItems |-> totalItems,
     totalAmount |-> totalAmount,
     deliveryFee |-> IF totalAmount > 0 THEN deliveryFee ELSE 0,
     finalAmount |-> IF totalAmount > 0 THEN totalAmount + deliveryFee ELSE 0]

\* res.json({ success: true, data: { items, summary } })
cartView(r) ==
    respond(r, 200, "",
            [items |-> r.items,
             summary |-> summaryOf(r.items, r.totalItems, r.subtotal)])

\* the loop goes on to its next lookup, or the handler answers
nextLookup(r) ==
    IF r.idx > Len(r.cart) THEN cartView(r) ELSE [r EXCEPT !.pc = "g_item"]

\* await User.findById(userId), then the loop up to its first lookup
GetUser(s, u) ==
    /\ Free(s)
    /\ req' = [req EXCEPT ![s] =
                 nextLookup([accepted("get", u) EXCEPT
                               !.cart = cartViewEntries(cartData[u]), !.idx = 1])]
    /\ nReq' = nReq + 1
    /\ UNCHANGED <<now, food, cartData, orders, nEdit>>

\* GetItem that also removes from the stored cart the entry it finds no
\* document for
GetItemPrunesStale(s) ==
    /\ req[s].pc = "g_item"
    /\ LET r == req[s]
           e == r.cart[r.idx]
           doc == food[e.id]
       IN /\ req' = [req EXCEPT ![s] =
                       nextLookup(
                         IF doc.exists
                         THEN [r EXCEPT
                                 !.items = Append(r.items, cartViewItem(e.id, doc, e.q)),
                                 !.subtotal = r.subtotal + doc.price * e.q,
                                 !.totalItems = r.totalItems + e.q,
                                 !.idx = r.idx + 1]
                         ELSE [r EXCEPT !.idx = r.idx + 1])]
          /\ cartData' = IF doc.exists
                         THEN cartData
                         ELSE [cartData EXCEPT ![r.user] = Del(cartData[r.user], e.id)]
    /\ UNCHANGED <<now, food, orders, nReq, nEdit>>

\* one turn of the loop: await Food.findById(itemId); a document is pushed
\* and added to the totals, no document is passed over
GetItem(s) ==
    /\ req[s].pc = "g_item"
    /\ LET r == req[s]
           e == r.cart[r.idx]
           doc == food[e.id]
       IN req' = [req EXCEPT ![s] =
                    nextLookup(
                      IF doc.exists
                      THEN [r EXCEPT
                              !.items = Append(r.items, cartViewItem(e.id, doc, e.q)),
                              !.subtotal = r.subtotal + doc.price * e.q,
                              !.totalItems = r.totalItems + e.q,
                              !.idx = r.idx + 1]
                      ELSE [r EXCEPT !.idx = r.idx + 1])]
    /\ UNCHANGED <<now, food, cartData, orders, nReq, nEdit>>

\* one turn of the loop whose lookup throws: the inner catch logs the item
\* id and the loop goes on
GetItemThrows(s) ==
    /\ req[s].pc = "g_item"
    /\ LET r == req[s]
       IN req' = [req EXCEPT ![s] =
                    nextLookup([r EXCEPT !.log = Append(r.log, r.cart[r.idx].id),
                                         !.idx = r.idx + 1])]
    /\ UNCHANGED <<now, food, cartData, orders, nReq, nEdit>>

---------------------------------------------------------------------------
(* DELETE /api/cart/clear *)

\* ClearCart as an update of every user document
ClearCartAllUsers(s, u) ==
    /\ Free(s)
    /\ cartData' = [v \in Users |-> <<>>]
    /\ req' = [req EXCEPT ![s] =
                 respond(accepted("clear", u), 200, "Cart cleared successfully", <<>>)]
    /\ nReq' = nReq + 1
    /\ UNCHANGED <<now, food, orders, nEdit>>

\* await User.findByIdAndUpdate(userId, { cartData: {} }), then the response
ClearCart(s, u) ==
    /\ Free(s)
    /\ cartData' = [cartData EXCEPT ![u] = <<>>]
    /\ req' = [req EXCEPT ![s] =
                 respond(accepted("clear", u), 200, "Cart cleared successfully", <<>>)]
    /\ nReq' = nReq + 1
    /\ UNCHANGED <<now, food, orders, nEdit>>

---------------------------------------------------------------------------
(* POST /api/order/place *)

\* the address test, await User.findById(userId), the empty-cart test
PlaceUser(s, u, address) ==
    /\ Free(s)
    /\ LET r == [accepted("place", u) EXCEPT !.address = address]
           cartItems == cartItemsOf(cartData[u])
       IN req' = [req EXCEPT ![s] =
                    IF ~addressComplete(address)
                    THEN respond(r, 400, "Complete delivery address is required",
                                 missingFields(address))
                    ELSE IF Len(cartItems) = 0
                    THEN respond(r, 400, "Cart is empty", <<>>)
                    ELSE [r EXCEPT !.pc = "p_item", !.cart = cartItems, !.idx = 1]]
    /\ nReq' = nReq + 1
    /\ UNCHANGED <<now, food, cartData, orders, nEdit>>

\* PlaceItem that also drops from the stored cart the entry it rejects
PlaceItemDropsEntry(s) ==
    /\ req[s].pc = "p_item"
    /\ LET r == req[s]
           e == r.cart[r.idx]
           doc == food[e.id]
       IN /\ req' = [req EXCEPT ![s] =
                       IF ~doc.exists
                       THEN respond(r, 400, "Food item not found", e.id)
                       ELSE IF ~doc.isAvailable
                       THEN respond(r, 400, "Food item is no longer available",
                                    doc.name)
                       ELSE [r EXCEPT
                               !.items = Append(r.items, lineItem(e.id, doc, e.q)),
                               !.subtotal = r.subtotal + itemTotal(doc, e.q),
                               !.idx = r.idx + 1,
                               !.pc = IF r.idx = Len(r.cart) THEN "p_count"
                                                             ELSE "p_item",
                               !.createdAt = IF r.idx = Len(r.cart) THEN now ELSE 0]]
          /\ cartData' = IF doc.exists /\ doc.isAvailable
                         THEN cartData
                         ELSE [cartData EXCEPT ![r.user] = Del(cartData[r.user], e.id)]
    /\ UNCHANGED <<now, food, orders, nReq, nEdit>>

\* one turn of the loop: await Food.findById(itemId), the two tests, the push;
\* after the last turn order.save() is called and mongoose stamps createdAt
PlaceItem(s) ==
    /\ req[s].pc = "p_item"
    /\ LET r == req[s]
           e == r.cart[r.idx]
           doc == food[e.id]
       IN req' = [req EXCEPT ![s] =
                    IF ~doc.exists
                    THEN respond(r, 400, "Food item not found", e.id)
                    ELSE IF ~doc.isAvailable
                    THEN respond(r, 400, "Food item is no longer available",
                                 doc.name)
                    ELSE [r EXCEPT
                            !.items = Append(r.items, lineItem(e.id, doc, e.q)),
                            !.subtotal = r.subtotal + itemTotal(doc, e.q),
                            !.idx = r.idx + 1,
                            !.pc = IF r.idx = Len(r.cart) THEN "p_count" ELSE "p_item",
                            !.createdAt = IF r.idx = Len(r.cart) THEN now ELSE 0]]
    /\ UNCHANGED <<now, food, cartData, orders, nReq, nEdit>>

\* pre('save'): await this.constructor.countDocuments()
PlaceCount(s) ==
    /\ req[s].pc = "p_count"
    /\ Len(orders) < MaxOrders
    /\ req' = [req EXCEPT ![s].pc = "p_stamp", ![s].count = Len(orders)]
    /\ UNCHANGED <<now, food, cartData, orders, nReq, nEdit>>

\* pre('save'): this.orderNumber = `ORD-${Date.now()}-...`
PlaceStamp(s) ==
    /\ req[s].pc = "p_stamp"
    /\ req' = [req EXCEPT ![s].pc = "p_save",
                          ![s].orderNumber = orderNumberOf(now, req[s].count)]
    /\ UNCHANGED <<now, food, cartData, orders, nReq, nEdit>>

\* PlaceSave that empties the cart along with the insert, whatever comes of it
PlaceSaveClearsCart(s) ==
    /\ req[s].pc = "p_save"
    /\ IF duplicateKey(orders, newOrder(req[s]))
       THEN /\ req' = [req EXCEPT ![s] =
                         respond(req[s], 500,
                                 "Failed to place order: E11000 duplicate key",
                                 <<>>)]
            /\ UNCHANGED orders
       ELSE /\ Len(orders) < MaxOrders
            /\ orders' = Append(orders, newOrder(req[s]))
            /\ req' = [req EXCEPT ![s].pc = "p_clear"]
    /\ cartData' = [cartData EXCEPT ![req[s].user] = <<>>]
    /\ UNCHANGED <<now, food, nReq, nEdit>>

\* await order.save(): the insert, which the unique index may reject
PlaceSave(s) ==
    /\ req[s].pc = "p_save"
    /\ IF duplicateKey(orders, newOrder(req[s]))
       THEN /\ req' = [req EXCEPT ![s] =
                         respond(req[s], 500,
                                 "Failed to place order: E11000 duplicate key",
                                 <<>>)]
            /\ UNCHANGED orders
       ELSE /\ Len(orders) < MaxOrders
            /\ orders' = Append(orders, newOrder(req[s]))
            /\ req' = [req EXCEPT ![s].pc = "p_clear"]
    /\ UNCHANGED <<now, food, cartData, nReq, nEdit>>

\* PlaceClear that answers without the update of the cart
PlaceClearSkipped(s) ==
    /\ req[s].pc = "p_clear"
    /\ req' = [req EXCEPT ![s] =
                 respond(req[s], 201, "Order placed successfully",
                         [orderNumber |-> req[s].orderNumber,
                          totalAmount |-> totalAmountOf(req[s].subtotal),
                          items |-> req[s].items])]
    /\ UNCHANGED <<now, food, cartData, orders, nReq, nEdit>>

\* await User.findByIdAndUpdate(userId, { cartData: {} }), then the response
PlaceClear(s) ==
    /\ req[s].pc = "p_clear"
    /\ cartData' = [cartData EXCEPT ![req[s].user] = <<>>]
    /\ req' = [req EXCEPT ![s] =
                 respond(req[s], 201, "Order placed successfully",
                         [orderNumber |-> req[s].orderNumber,
                          totalAmount |-> totalAmountOf(req[s].subtotal),
                          items |-> req[s].items])]
    /\ UNCHANGED <<now, food, orders, nReq, nEdit>>

---------------------------------------------------------------------------
(* POST /api/order/userorders *)

\* await Order.find({ userId }).sort(...).skip(skip).limit(...).populate(...)
ListFind(s, u, page, limit) ==
    /\ Free(s)
    /\ \E sorted \in sortedByCreatedAtDesc(ordersOf(orders, u)) :
         LET got == skipLimit(sorted, (page - 1) * limit, limit)
         IN req' = [req EXCEPT ![s] =
                      [accepted("list", u) EXCEPT
                         !.pc = "l_count", !.page = page, !.limit = limit,
                         !.found = [k \in 1..Len(got) |-> formatOrder(got[k], food)]]]
    /\ nReq' = nReq + 1
    /\ UNCHANGED <<now, food, cartData, orders, nEdit>>

\* await Order.countDocuments({ userId }), then the response
ListCount(s) ==
    /\ req[s].pc = "l_count"
    /\ req' = [req EXCEPT ![s] =
                 respond(req[s], 200,
                         IF Len(req[s].found) > 0 THEN "Found orders"
                                                  ELSE "No orders found",
                         [orders |-> req[s].found,
                          pagination |->
                            paginationOf(req[s].page, req[s].limit,
                                         Len(ordersOf(orders, req[s].user)))])]
    /\ UNCHANGED <<now, food, cartData, orders, nReq, nEdit>>

---------------------------------------------------------------------------
(* A storage operation that throws: the handler's catch block answers 500 *)

Awaiting ==
    {"a_write", "r_write", "p_item", "p_count", "p_save", "p_clear", "l_count"}

\* the operation a request in flight is waiting for throws
DbFail(s) ==
    /\ req[s].pc \in Awaiting
    /\ req' = [req EXCEPT ![s] = respond(req[s], 500, failMessage(req[s].op), <<>>)]
    /\ UNCHANGED <<now, food, cartData, orders, nReq, nEdit>>

\* the first storage operation of a handler throws
DbFailFirst(s, op, u) ==
    /\ Free(s)
    /\ req' = [req EXCEPT ![s] = respond(accepted(op, u), 500, failMessage(op), <<>>)]
    /\ nReq' = nReq + 1
    /\ UNCHANGED <<now, food, cartData, orders, nEdit>>

---------------------------------------------------------------------------
(* Specifications *)

Ops == {"add", "remove", "get", "clear", "place", "list"}

World ==
    \/ \E f \in FoodIds, p \in Prices : SetPrice(f, p)
    \/ \E f \in FoodIds, b \in BOOLEAN : SetAvailable(f, b)
    \/ \E f \in FoodIds, n \in Names : Rename(f, n)
    \/ \E f \in FoodIds, i \in Images : SetImage(f, i)
    \/ \E f \in FoodIds : DeleteFood(f)

CartAndOrder(s) ==
    \/ \E u \in Users, i \in FoodIds, q \in Quantities : AddRead(s, u, i, q)
    \/ AddWrite(s)
    \/ \E u \in Users, i \in FoodIds, q \in Quantities : RemoveRead(s, u, i, q)
    \/ RemoveWrite(s)
    \/ \E u \in Users : ClearCart(s, u)
    \/ \E u \in Users, a \in Addresses : PlaceUser(s, u, a)
    \/ PlaceItem(s)
    \/ PlaceCount(s)
    \/ PlaceStamp(s)
    \/ PlaceSave(s)
    \/ PlaceClear(s)
    \/ DbFail(s)

Handle(s) ==
    \/ CartAndOrder(s)
    \/ \E route \in Ops, token \in BadTokens : AuthReject(s, route, token)
    \/ \E u \in Users : GetUser(s, u)
    \/ GetItem(s)
    \/ GetItemThrows(s)
    \/ \E u \in Users, p \in Pages, l \in Limits : ListFind(s, u, p, l)
    \/ ListCount(s)
    \/ \E op \in Ops, u \in Users : DbFailFirst(s, op, u)

\* requests served one at a time, while the catalog is edited
Next == Tick \/ World \/ \E s \in SeqSlots : Handle(s)

\* cart and order requests that overlap, the catalog left alone
NextConc == Tick \/ \E s \in ConcSlots : CartAndOrder(s)

\* orders placed and listed, one request at a time, the catalog left alone:
\* ListRequests requests are served instead of MaxRequests
InitList ==
    /\ now = 0
    /\ food = [f \in FoodIds |->
                 [exists |-> TRUE,
                  name |-> "n1",
                  price |-> IF f = "f1" THEN 1099 ELSE 850,
                  image |-> "i1",
                  isAvailable |-> TRUE]]
    /\ cartData = [u \in Users |-> <<>>]
    /\ orders = <<>>
    /\ req = [s \in ConcSlots |-> Idle]
    /\ nReq = MaxRequests - ListRequests
    /\ nEdit = 0

PlaceAndList(s) ==
    \/ \E u \in Users, i \in FoodIds, q \in Quantities : AddRead(s, u, i, q)
    \/ AddWrite(s)
    \/ \E u \in Users, a \in Addresses : PlaceUser(s, u, a)
    \/ PlaceItem(s)
    \/ PlaceCount(s)
    \/ PlaceStamp(s)
    \/ PlaceSave(s)
    \/ PlaceClear(s)
    \/ \E u \in Users, p \in Pages, l \in Limits : ListFind(s, u, p, l)
    \/ ListCount(s)

NextList == Tick \/ \E s \in SeqSlots : PlaceAndList(s)

Spec == Init /\ [][Next]_vars

SpecList == InitList /\ [][NextList]_vars

SpecConc == Init /\ [][NextConc]_vars

---------------------------------------------------------------------------
(* Properties *)

Finished(s, op) == req[s].pc = "done" /\ req[s].op = op

\* slot s takes a step
Steps(s) == req'[s] # req[s]

Positive(cart) == \A k \in 1..Len(cart) : cart[k].q > 0

Max(a, b) == IF a >= b THEN a ELSE b

RECURSIVE SumLines(_)
SumLines(items) ==
    IF Len(items) = 0
    THEN 0
    ELSE items[1].price * items[1].quantity + SumLines(Tail(items))

\* C1: an order placement that fails because a cart entry's food item does
\* not exist or is unavailable persists no Order and leaves the user's cart
\* exactly as the request found it, wherever the entry stands in the cart.
C1_FailedLookupIsAtomic ==
    \A s \in SeqSlots :
        (/\ Finished(s, "place")
         /\ req[s].resp.message \in
              {"Food item not found", "Food item is no longer available"})
        => /\ orders = req[s].orders0
           /\ cartData[req[s].user] = req[s].cart0

\* the second of two entries is the one that does not resolve
C1_Witness ==
    \E s \in SeqSlots :
        /\ Finished(s, "place")
        /\ req[s].resp.message = "Food item not found"
        /\ Len(req[s].cart0) = 2
        /\ req[s].resp.data = req[s].cart0[2].id

\* C2: when a placement answers success, the user's cart is empty and the
\* request has added exactly one Order, whose orderNumber differs from that
\* of every other Order.
C2_SuccessClearsCartOneOrder ==
    \A s \in SeqSlots :
        (Finished(s, "place") /\ req[s].resp.code = 201)
        => LET n == Len(req[s].orders0)
           IN /\ cartData[req[s].user] = <<>>
              /\ Len(orders) = n + 1
              /\ SubSeq(orders, 1, n) = req[s].orders0
              /\ orders[n + 1].orderNumber = req[s].resp.data.orderNumber
              /\ orders[n + 1].userId = req[s].user
              /\ \A k \in 1..n : orders[k].orderNumber # orders[n + 1].orderNumber

\* a successful placement while another Order is already stored
C2_Witness ==
    \E s \in SeqSlots :
        /\ Finished(s, "place")
        /\ req[s].resp.code = 201
        /\ Len(orders) = 2

\* C3: the order numbers generated by two placements within one millisecond
\* are distinct, so that both inserts pass the unique index: no request about
\* to insert holds the number of a stored Order or of another such request.
C3_SameMillisecondDistinct ==
    \A s \in ConcSlots :
        req[s].pc = "p_save"
        => /\ ~duplicateKey(orders, newOrder(req[s]))
           /\ \A t \in ConcSlots \ {s} :
                req[t].pc = "p_save" => req[t].orderNumber # req[s].orderNumber

\* C4: served one at a time on a cart of positive quantities, AddItem with
\* d > 0 turns the stored quantity q of its item into q + d and RemoveItem
\* into max(0, q - d); the item has an entry exactly when the result is
\* positive, and every other entry and every other cart stays as it was.
C4_RunningQuantity ==
    [][\A s \in SeqSlots :
         (/\ req[s].pc \in {"a_write", "r_write"}
          /\ req'[s].pc = "done"
          /\ req'[s].resp.code = 200
          /\ req[s].quantity > 0
          /\ Positive(cartData[req[s].user]))
         => LET u == req[s].user
                i == req[s].itemId
                d == req[s].quantity
                q == Get(cartData[u], i)
                new == IF req[s].pc = "a_write" THEN q + d ELSE Max(0, q - d)
            IN /\ Get(cartData'[u], i) = new
               /\ Has(cartData'[u], i) <=> new > 0
               /\ req'[s].resp.data = <<i, new>>
               /\ \A j \in FoodIds \ {i} :
                    /\ Has(cartData'[u], j) <=> Has(cartData[u], j)
                    /\ Get(cartData'[u], j) = Get(cartData[u], j)
               /\ Positive(cartData'[u])
               /\ \A v \in Users \ {u} : cartData'[v] = cartData[v]]_vars

\* a removal of more than the cart holds, which deletes the entry
C4_Witness ==
    \E s \in SeqSlots :
        /\ Finished(s, "remove")
        /\ req[s].resp.code = 200
        /\ req[s].quantity = 2
        /\ Get(req[s].cart0, req[s].itemId) = 1
        /\ Len(req[s].cart0) = 2
        /\ Len(cartData[req[s].user]) = 1

\* C5: every entry stored in every user's cart has a quantity greater than 0.
C5_StoredQuantitiesPositive ==
    \A u \in Users : Positive(cartData[u])

\* C6: every stored Order has amount = sum of price * quantity over its line
\* items, deliveryFee = 2.00 and totalAmount = amount + deliveryFee.
C6_OrderTotalsConsistent ==
    \A k \in 1..Len(orders) :
        /\ orders[k].amount = SumLines(orders[k].items)
        /\ orders[k].deliveryFee = 200
        /\ orders[k].totalAmount = orders[k].amount + orders[k].deliveryFee

\* the order of 2 x 10.99 and 1 x 8.50: subtotal 30.48, total 32.48
C6_Witness ==
    \E k \in 1..Len(orders) :
        /\ Len(orders[k].items) = 2
        /\ \E a, b \in 1..2 :
             /\ orders[k].items[a].price = 1099 /\ orders[k].items[a].quantity = 2
             /\ orders[k].items[b].price = 850 /\ orders[k].items[b].quantity = 1
        /\ orders[k].amount = 3048
        /\ orders[k].totalAmount = 3248

\* C7: a placement with a complete address, answered by the handler and not
\* by its catch block, for a user whose cart has no entry of quantity > 0
\* fails with "Cart is empty", persists no Order and leaves the cart unchanged.
C7_EmptyCartRejected ==
    \A s \in SeqSlots :
        (/\ Finished(s, "place")
         /\ handlerFields \subseteq req[s].address
         /\ req[s].resp.code # 500
         /\ ~\E k \in 1..Len(req[s].cart0) : req[s].cart0[k].q > 0)
        => /\ req[s].resp.code = 400
           /\ req[s].resp.message = "Cart is empty"
           /\ orders = req[s].orders0
           /\ cartData[req[s].user] = req[s].cart0

\* the cart holds an entry, of a quantity that is not positive
C7_Witness ==
    \E s \in SeqSlots :
        /\ Finished(s, "place")
        /\ req[s].resp.message = "Cart is empty"
        /\ req[s].cart0 # <<>>
        /\ cartData[req[s].user] = req[s].cart0

\* C8: a placement writes nothing until its insert has succeeded, and an
\* insert that fails (rejected by the unique index, or a storage error) ends
\* the request with a failure: that step and every earlier step of the
\* request leave all carts and the Order collection unchanged.
C8_FailedInsertKeepsCart ==
    [][\A s \in ConcSlots :
         (Steps(s) /\ req'[s].op = "place")
         => /\ (req[s].pc = "p_save" /\ req'[s].pc = "done")
               => req'[s].resp.code = 500
            /\ ~(req[s].pc = "p_save" /\ req'[s].pc = "p_clear")
               => orders' = orders
            /\ ~(req[s].pc = "p_clear" /\ req'[s].resp.code = 201)
               => cartData' = cartData]_vars

\* the unique index has rejected an insert while the cart still holds items
C8_Witness ==
    \E s \in ConcSlots :
        /\ Finished(s, "place")
        /\ req[s].resp.message = "Failed to place order: E11000 duplicate key"
        /\ cartData[req[s].user] = req[s].cart0
        /\ req[s].cart0 # <<>>

\* C9: a placement is rejected for its address exactly when the address
\* lacks one of firstName, lastName, email, street, city, state, zipCode,
\* country, phone, and then the response names the fields that are missing.
C9_AddressNineFields ==
    \A s \in SeqSlots :
        Finished(s, "place")
        => LET rejected ==
                 req[s].resp.message = "Complete delivery address is required"
           IN /\ rejected <=> ~(requiredFields \subseteq req[s].address)
              /\ rejected => req[s].resp.data = requiredFields \ req[s].address

\* C10: no step changes or removes a stored Order; a line item holds the
\* name, price and image the catalog has when the item is resolved; the
\* listing reports name, price, image, line total and the order's amounts from
\* the stored Order and isAvailable from the catalog as it is then.
C10_OrdersImmutable ==
    [][/\ Len(orders') >= Len(orders)
       /\ SubSeq(orders', 1, Len(orders)) = orders
       /\ \A s \in SeqSlots :
            /\ (req[s].pc = "p_item" /\ Len(req'[s].items) > Len(req[s].items))
               => LET it == req'[s].items[Len(req'[s].items)]
                  IN /\ it.name = food[it.foodId].name
                     /\ it.price = food[it.foodId].price
                     /\ it.image = food[it.foodId].image
            /\ (Steps(s) /\ req'[s].pc = "l_count")
               => \A k \in 1..Len(req'[s].found) :
                    LET fo == req'[s].found[k]
                    IN \E n \in 1..Len(orders) :
                         LET o == orders[n]
                         IN /\ o.orderNumber = fo.orderNumber
                            /\ o.userId = req'[s].user
                            /\ fo.amount = o.amount
                            /\ fo.deliveryFee = o.deliveryFee
                            /\ fo.totalAmount = o.totalAmount
                            /\ Len(fo.items) = Len(o.items)
                            /\ \A m \in 1..Len(o.items) :
                                 /\ fo.items[m].name = o.items[m].name
                                 /\ fo.items[m].price = o.items[m].price
                                 /\ fo.items[m].image = o.items[m].image
                                 /\ fo.items[m].quantity = o.items[m].quantity
                                 /\ fo.items[m].total =
                                      o.items[m].price * o.items[m].quantity
                                 /\ fo.items[m].isAvailable =
                                      (/\ food[o.items[m].foodId].exists
                                       /\ food[o.items[m].foodId].isAvailable)]_vars

\* a listing made after the price of an ordered item was changed
C10_Witness ==
    \E s \in SeqSlots :
        /\ Finished(s, "list")
        /\ req[s].resp.code = 200
        /\ \E k \in 1..Len(req[s].resp.data.orders), n \in 1..Len(orders) :
             LET listed == req[s].resp.data.orders[k]
                 stored == orders[n]
             IN /\ listed.orderNumber = stored.orderNumber
                /\ listed.items[1].price = stored.items[1].price
                /\ listed.items[1].price # food[stored.items[1].foodId].price

RECURSIVE SumQuantities(_)
SumQuantities(items) ==
    IF Len(items) = 0 THEN 0 ELSE items[1].quantity + SumQuantities(Tail(items))

\* the entries of a cart whose item is in the catalog
Resolving(cart) == SelectSeq(cart, LAMBDA e : food[e.id].exists)

\* the response's items are the entries of a cart, in the cart's order
ItemsOfEntries(items, entries) ==
    /\ Len(items) = Len(entries)
    /\ \A k \in 1..Len(items) :
         /\ items[k]._id = entries[k].id
         /\ items[k].quantity = entries[k].q
         /\ items[k].total = items[k].price * items[k].quantity

\* C11: when GetCart answers and no lookup has thrown, its items are exactly
\* the entries of the stored cart whose item is in the catalog (while the
\* catalog was not edited: at its current price), totalAmount is the sum of
\* price * quantity over them, totalItems the sum of their quantities,
\* deliveryFee is 0 if totalAmount is 0 and 2.00 otherwise, and finalAmount
\* is totalAmount + deliveryFee.
C11_CartSummary ==
    \A s \in SeqSlots :
        (Finished(s, "get") /\ req[s].resp.code = 200 /\ req[s].log = <<>>
         /\ nEdit = 0)
        => LET items == req[s].resp.data.items
               sum == req[s].resp.data.summary
           IN /\ ItemsOfEntries(items, Resolving(req[s].cart0))
              /\ \A k \in 1..Len(items) : items[k].price = food[items[k]._id].price
              /\ sum.totalAmount = SumLines(items)
              /\ sum.totalItems = SumQuantities(items)
              /\ sum.deliveryFee = IF sum.totalAmount = 0 THEN 0 ELSE 200
              /\ sum.finalAmount = sum.totalAmount + sum.deliveryFee

\* C12: a cart mutation stores the whole cart it computed from the cart it
\* read (ClearCart: the empty cart), whatever other requests of the user have
\* stored since, and touches no other user's cart: the request that writes
\* last decides the stored cart and the other request's change is lost.
C12_LastWriteWins ==
    [][\A s \in ConcSlots :
         (/\ Steps(s)
          /\ req'[s].pc = "done"
          /\ req'[s].op \in {"add", "remove", "clear"}
          /\ req'[s].resp.code = 200)
         => LET r == req'[s]
                u == r.user
            IN /\ cartData'[u] =
                    CASE r.op = "add" -> addUpdate(r.cart0, r.itemId, r.quantity)
                      [] r.op = "remove" -> removeUpdate(r.cart0, r.itemId, r.quantity)
                      [] OTHER -> <<>>
               /\ \A v \in Users \ {u} : cartData'[v] = cartData[v]
               /\ orders' = orders]_vars

\* two overlapping AddItem requests of one user for different items have
\* both answered success, and the stored cart holds one of the two items
C12_Witness ==
    \E s, t \in ConcSlots :
        /\ Finished(s, "add") /\ Finished(t, "add")
        /\ req[s].resp.code = 200 /\ req[t].resp.code = 200
        /\ req[s].user = req[t].user
        /\ req[s].itemId # req[t].itemId
        /\ req[s].quantity > 0 /\ req[t].quantity > 0
        /\ req[s].cart0 = <<>> /\ req[t].cart0 = <<>>
        /\ Len(cartData[req[s].user]) = 1

\* the segments of a string between its "-" characters
RECURSIVE split(_)
split(str) ==
    IF \A k \in 1..Len(str) : str[k] # "-"
    THEN <<str>>
    ELSE LET k == CHOOSE j \in 1..Len(str) :
                     str[j] = "-" /\ \A h \in 1..(j - 1) : str[h] # "-"
         IN <<SubSeq(str, 1, k - 1)>> \o split(SubSeq(str, k + 1, Len(str)))

Digits == {"0", "1", "2", "3", "4", "5", "6", "7", "8", "9"}

DigitValue(c) == CHOOSE d \in 0..9 : DigitChar(d) = c

\* the number a string of decimal digits stands for
RECURSIVE parseInt(_)
parseInt(str) ==
    IF Len(str) = 0
    THEN 0
    ELSE 10 * parseInt(SubSeq(str, 1, Len(str) - 1)) + DigitValue(str[Len(str)])

IsNumber(str) == Len(str) > 0 /\ \A k \in 1..Len(str) : str[k] \in Digits

\* C13: with placements served one at a time, the number of the k-th stored
\* Order is "ORD", a timestamp between the order's creation and now, and a
\* sequence segment of four digits that reads k (the number of Orders stored
\* before it, of all users, plus one): greater than the segment of every
\* Order stored before it.
C13_SequenceSegment ==
    \A k \in 1..Len(orders) :
        LET parts == split(orders[k].orderNumber)
        IN /\ Len(parts) = 3
           /\ parts[1] = <<"O", "R", "D">>
           /\ IsNumber(parts[2])
           /\ orders[k].createdAt <= parseInt(parts[2])
           /\ parseInt(parts[2]) <= now
           /\ IsNumber(parts[3])
           /\ Len(parts[3]) = 4
           /\ parseInt(parts[3]) = k
           /\ \A j \in 1..(k - 1) :
                parseInt(split(orders[j].orderNumber)[3]) < parseInt(parts[3])

\* a second Order is stored, numbered 0002 a millisecond after the first
C13_Witness ==
    /\ Len(orders) = 2
    /\ split(orders[1].orderNumber)[3] = <<"0", "0", "0", "1">>
    /\ split(orders[2].orderNumber)[3] = <<"0", "0", "0", "2">>
    /\ parseInt(split(orders[1].orderNumber)[2]) < parseInt(split(orders[2].orderNumber)[2])

\* C14: a request for a cart, order placement or order listing route whose
\* token is missing, invalid or of no existing user is answered 401 in the
\* step in which it arrives, no handler runs for it, and that step changes
\* no cart and no Order; a handler only ever runs for an existing user.
C14_UnauthenticatedRejected ==
    [][\A s \in SeqSlots :
         /\ (Steps(s) /\ req'[s].op = "auth")
            => /\ req'[s].pc = "done"
               /\ req'[s].route \in Ops
               /\ req'[s].user \notin Users
               /\ req'[s].resp.code = 401
               /\ req'[s].resp.message \in
                    {"Access token is required", "Authentication failed",
                     "User not found"}
               /\ cartData' = cartData
               /\ orders' = orders
         /\ (Steps(s) /\ req'[s].op # "auth")
            => /\ req'[s].user \in Users
               /\ req'[s].resp.code # 401]_vars

\* a ClearCart request with the token of no existing user was rejected and
\* a user's cart still holds an item
C14_Witness ==
    \E s \in SeqSlots :
        /\ Finished(s, "auth")
        /\ req[s].route = "clear"
        /\ req[s].resp.message = "User not found"
        /\ \E u \in Users : cartData[u] # <<>>

\* C15: a listing with page p and limit l for a user with totalOrders orders
\* reports totalPages = ceil(totalOrders / l), hasNextPage = (p < totalPages)
\* and hasPrevPage = (p > 1); for a user with no orders it answers success
\* with no orders, totalOrders 0, totalPages 0 and hasNextPage false.
C15_Pagination ==
    \A s \in SeqSlots :
        (Finished(s, "list") /\ req[s].resp.code # 500)
        => LET pg == req[s].resp.data.pagination
               total == Len(ordersOf(orders, req[s].user))
               p == req[s].page
               l == req[s].limit
           IN /\ req[s].resp.code = 200
              /\ pg.currentPage = p
              /\ pg.totalOrders = total
              /\ pg.totalPages * l >= total
              /\ (pg.totalPages - 1) * l < total
              /\ pg.hasNextPage <=> p < pg.totalPages
              /\ pg.hasPrevPage <=> p > 1
              /\ total = 0
                 => /\ req[s].resp.data.orders = <<>>
                    /\ pg.totalPages = 0
                    /\ ~pg.hasNextPage

\* the first page of one order for a user with two orders: a next page exists
C15_Witness ==
    \E s \in SeqSlots :
        /\ Finished(s, "list")
        /\ req[s].page = 1 /\ req[s].limit = 1
        /\ req[s].resp.data.pagination.totalOrders = 2
        /\ req[s].resp.data.pagination.totalPages = 2
        /\ req[s].resp.data.pagination.hasNextPage
        /\ ~req[s].resp.data.pagination.hasPrevPage

Min(a, b) == IF a <= b THEN a ELSE b

\* C16: a listing for user U with page p and limit l returns the orders at
\* positions (p-1)*l+1 .. p*l of U's own orders taken from the one placed
\* last to the one placed first, and no order of another user.
C16_NewestFirstPage ==
    \A s \in SeqSlots :
        (Finished(s, "list") /\ req[s].resp.code = 200)
        => LET mine == ordersOf(orders, req[s].user)
               n == Len(mine)
               newest == [k \in 1..n |-> mine[n + 1 - k]]
               first == (req[s].page - 1) * req[s].limit + 1
               last == Min(req[s].page * req[s].limit, n)
               got == req[s].resp.data.orders
           IN /\ Len(got) = Max(0, last - first + 1)
              /\ \A k \in 1..Len(got) :
                   got[k].orderNumber = newest[first + k - 1].orderNumber

\* C17: a ClearCart that answers success leaves the user's stored cart empty
\* whatever it held, changes no other user's cart and no Order, and applied
\* to a cart that is already empty (as after a ClearCart) changes nothing.
C17_ClearCartIdempotent ==
    [][\A s \in SeqSlots :
         (Steps(s) /\ req'[s].op = "clear" /\ req'[s].resp.code = 200)
         => LET u == req'[s].user
            IN /\ cartData'[u] = <<>>
               /\ \A v \in Users \ {u} : cartData'[v] = cartData[v]
               /\ orders' = orders
               /\ food' = food
               /\ cartData[u] = <<>> => cartData' = cartData]_vars

\* a cart that held an item was cleared while the other user's cart kept its
\* own
C17_Witness ==
    \E s \in SeqSlots :
        /\ Finished(s, "clear")
        /\ req[s].resp.code = 200
        /\ req[s].cart0 # <<>>
        /\ cartData[req[s].user] = <<>>
        /\ \E v \in Users \ {req[s].user} : cartData[v] # <<>>

\* what a GetCart request has gathered so far, or has answered
ViewOf(r) ==
    IF r.pc = "done"
    THEN [items |-> r.resp.data.items,
          totalItems |-> r.resp.data.summary.totalItems,
          totalAmount |-> r.resp.data.summary.totalAmount]
    ELSE [items |-> r.items, totalItems |-> r.totalItems, totalAmount |-> r.subtotal]

\* C18: GetCart never changes a stored cart. When its lookup of a cart entry
\* finds no item in the catalog, the entry is left out of items and of the
\* totals, the request goes on and answers success, and the entry stays in
\* the stored cart; an order placement whose lookup finds no item answers
\* 400 "Food item not found" with the item's id.
C18_StaleEntrySkippedOrFatal ==
    [][\A s \in SeqSlots :
         /\ (Steps(s) /\ req'[s].op = "get")
            => cartData' = cartData /\ orders' = orders
         /\ (Steps(s) /\ req[s].pc = "g_item")
            => LET e == req[s].cart[req[s].idx]
               IN /\ req'[s].pc \in {"g_item", "done"}
                  /\ req'[s].pc = "done" => req'[s].resp.code = 200
                  /\ ~food[e.id].exists
                     => /\ ViewOf(req'[s]) = ViewOf(req[s])
                        /\ Has(cartData'[req[s].user], e.id)
                           <=> Has(cartData[req[s].user], e.id)
         /\ (Steps(s) /\ req[s].pc = "p_item"
                /\ ~food[req[s].cart[req[s].idx].id].exists
                /\ req'[s].resp.code # 500)
            => /\ req'[s].pc = "done"
               /\ req'[s].resp.code = 400
               /\ req'[s].resp.message = "Food item not found"
               /\ req'[s].resp.data = req[s].cart[req[s].idx].id
               /\ cartData' = cartData /\ orders' = orders]_vars

\* of a cart of two items one is no longer in the catalog: GetCart has
\* answered with the other alone, and the stored cart still holds both
C18_Witness ==
    \E s \in SeqSlots :
        /\ Finished(s, "get")
        /\ req[s].resp.code = 200
        /\ req[s].log = <<>>
        /\ Len(req[s].cart0) = 2
        /\ Positive(req[s].cart0)
        /\ cartData[req[s].user] = req[s].cart0
        /\ Len(req[s].resp.data.items) = 1
        /\ \E k \in 1..2 :
             /\ ~food[req[s].cart0[k].id].exists
             /\ req[s].resp.data.items[1]._id # req[s].cart0[k].id
             /\ req[s].resp.data.summary.totalItems = req[s].cart0[3 - k].q

\* the insert of a placement has succeeded
Inserted(r) ==
    /\ r.op = "place"
    /\ r.pc = "p_clear" \/ (r.pc = "done" /\ r.resp.code = 201)

\* C19: of two overlapping placements of one user that have read the same
\* non-empty cart, at most one persists an Order.
C19_OneOrderPerCart ==
    \A s, t \in ConcSlots :
        (/\ s # t
         /\ req[s].op = "place" /\ req[t].op = "place"
         /\ req[s].user = req[t].user
         /\ req[s].cart0 # <<>>
         /\ req[s].cart0 = req[t].cart0
         /\ req[s].orders0 = req[t].orders0)
        => ~(Inserted(req[s]) /\ Inserted(req[t]))

\* C20: a placement that answers a failure has persisted no Order: the
\* Order collection is as the request found it.
C20_FailureMeansNoOrder ==
    \A s \in SeqSlots :
        (Finished(s, "place") /\ req[s].resp.code # 201)
        => orders = req[s].orders0

\* C21: when an AddItem of quantity d > 0 and an order placement of the same
\* user overlap and both have answered success, the d units are in the
\* user's stored cart or in a line item of one of the user's Orders.
C21_AddedUnitsAccounted ==
    \A s, t \in ConcSlots :
        (/\ Finished(s, "add") /\ req[s].resp.code = 200
         /\ req[s].quantity > 0
         /\ Finished(t, "place") /\ req[t].resp.code = 201
         /\ req[s].user = req[t].user)
        => LET u == req[s].user
               i == req[s].itemId
               d == req[s].quantity
           IN \/ Get(cartData[u], i) >= d
              \/ \E k \in 1..Len(orders) :
                    /\ orders[k].userId = u
                    /\ \E m \in 1..Len(orders[k].items) :
                         /\ orders[k].items[m].foodId = i
                         /\ orders[k].items[m].quantity >= d

\* the subtotal the placement loop adds up over the entries it has read
RECURSIVE subtotalOf(_, _)
subtotalOf(entries, catalog) ==
    IF Len(entries) = 0
    THEN 0
    ELSE itemTotal(catalog[entries[1].id], entries[1].q)
             + subtotalOf(Tail(entries), catalog)

\* the totalAmount of the Order a placement makes of a cart
placementTotal(cart, catalog) == totalAmountOf(subtotalOf(cartItemsOf(cart), catalog))

\* GetCart has answered for a cart that a placement would accept: the cart is
\* still as it was read, every item is in the catalog and available, and the
\* catalog holds the prices the lookups found
ViewedThenPlaceable(s) ==
    /\ Finished(s, "get")
    /\ req[s].resp.code = 200
    /\ req[s].log = <<>>
    /\ cartData[req[s].user] = req[s].cart0
    /\ cartItemsOf(req[s].cart0) # <<>>
    /\ \A k \in 1..Len(req[s].cart0) :
         /\ food[req[s].cart0[k].id].exists
         /\ food[req[s].cart0[k].id].isAvailable
    /\ Len(req[s].resp.data.items) = Len(cartItemsOf(req[s].cart0))
    /\ \A k \in 1..Len(req[s].resp.data.items) :
         req[s].resp.data.items[k].price = food[req[s].resp.data.items[k]._id].price

\* C22 as claimed: for a cart whose items all resolve and are available, the
\* finalAmount of GetCart equals the totalAmount of the Order that a
\* placement makes of the cart with the catalog unchanged, also when every
\* item has price 0.
C22_ViewEqualsOrderTotal ==
    \A s \in SeqSlots :
        ViewedThenPlaceable(s)
        => req[s].resp.data.summary.finalAmount
              = placementTotal(req[s].cart0, food)

\* C22 as amended: the two amounts are equal when the cart's totalAmount is
\* greater than 0; when it is 0, GetCart reports finalAmount 0 and the Order
\* is charged the delivery fee, totalAmount 2.00.
C22_ViewEqualsOrderTotalWhenCharged ==
    \A s \in SeqSlots :
        ViewedThenPlaceable(s)
        => LET sum == req[s].resp.data.summary
           IN /\ sum.totalAmount > 0
                 => sum.finalAmount = placementTotal(req[s].cart0, food)
              /\ sum.totalAmount = 0
                 => /\ sum.finalAmount = 0
                    /\ placementTotal(req[s].cart0, food) = 200
              /\ sum.totalAmount >= 0

\* GetCart has answered for a cart of two units of an item priced 10.99:
\* finalAmount 23.98, the totalAmount of the Order to come
C22_Witness ==
    \E s \in SeqSlots :
        /\ ViewedThenPlaceable(s)
        /\ req[s].resp.data.summary.totalItems = 2
        /\ req[s].resp.data.summary.totalAmount = 2198
        /\ req[s].resp.data.summary.finalAmount = 2398

\* C23: no step of an AddItem or RemoveItem request whose quantity is 0 or
\* negative changes a stored cart.
C23_NonPositiveQuantityIgnored ==
    [][\A s \in SeqSlots :
         (/\ Steps(s)
          /\ req'[s].op \in {"add", "remove"}
          /\ req'[s].quantity <= 0)
         => cartData' = cartData]_vars

====
